---- MODULE Spec2Model ----
(***************************************************************************)
(* Cade, a cycle-accurate DCPU-16 emulator (src/cade.c, src/cade.h).       *)
(*                                                                         *)
(* The model's state is struct DCPU_State (the variable cpu), the position *)
(* of the caller inside the stepping entry points DCPU_StepCycles,         *)
(* DCPU_StepInstruction and DCPU_StepUntilStuck (hpc and their locals),    *)
(* and what a caller observes of a call (entry, ret).  One action is one   *)
(* call of DCPU_Init or DCPU_Load, or one iteration of a stepping loop,    *)
(* that is one call of cpu->cycle.execute(cpu).                            *)
(*                                                                         *)
(* Words are 16 bits wide; memory is the 65536-word array, kept as the     *)
(* finite function of its non-zero cells.  A resolved operand (the C       *)
(* pointer val_a / val_b) is a location record; an index past the end of   *)
(* memory[] is kept as such, and a load or store through it is undefined   *)
(* behaviour, modelled as a choice over what the store can hit.            *)
(***************************************************************************)
EXTENDS Integers, Sequences, FiniteSets, TLC

(* ------------------------------------------------------------------ *)
(* Program constants.                                                  *)

MEM_SIZE == 65536

(* 0x8000: a high half from which a 32-bit value, read as an int, is negative. *)
SIGN_BIT == 32768

DCPU_REG_COUNT == 8

OP_NOBASIC == 0
OP_SET == 1
OP_ADD == 2
OP_SUB == 3
OP_MUL == 4
OP_DIV == 5
OP_MOD == 6
OP_SHL == 7
OP_SHR == 8
OP_AND == 9
OP_BOR == 10
OP_XOR == 11
OP_IFE == 12
OP_IFN == 13
OP_IFG == 14
OP_IFB == 15

XOP_JSR == 1

VAL_REG_A == 0
VAL_REG_J == 7
VAL_DEREF_REG_A == 8
VAL_DEREF_REG_J == 15
VAL_SUCC_REG_A == 16
VAL_SUCC_REG_J == 23
VAL_POP == 24
VAL_PEEK == 25
VAL_PUSH == 26
VAL_SP == 27
VAL_PC == 28
VAL_O == 29
VAL_SUCC == 30
VAL_SUCC_LIT == 31
VAL_LIT_FIRST == 32
VAL_LIT_LAST == 63

(* DCPU_STOP, SUB PC, 1: (0x21 << 10 | (0x1c << 4) | 3) = 0x85C3. *)
DCPU_STOP == 34243

(* ------------------------------------------------------------------ *)
(* 16-bit and 32-bit arithmetic.                                       *)

RECURSIVE Pow2(_)
Pow2(n) == IF n = 0 THEN 1 ELSE 2 * Pow2(n - 1)

RECURSIVE BitAnd(_, _)
BitAnd(x, y) ==
    IF x = 0 \/ y = 0 THEN 0
    ELSE (x % 2) * (y % 2) + 2 * BitAnd(x \div 2, y \div 2)

RECURSIVE BitOr(_, _)
BitOr(x, y) ==
    IF x = 0 THEN y
    ELSE IF y = 0 THEN x
    ELSE (IF x % 2 = 1 \/ y % 2 = 1 THEN 1 ELSE 0) + 2 * BitOr(x \div 2, y \div 2)

RECURSIVE BitXor(_, _)
BitXor(x, y) ==
    IF x = 0 THEN y
    ELSE IF y = 0 THEN x
    ELSE ((x + y) % 2) + 2 * BitXor(x \div 2, y \div 2)

(* 32-bit values are kept as their two 16-bit halves [hi, lo], so that no *)
(* intermediate value leaves the range of the checker's integers.         *)
Halves(x) == [hi |-> (x \div MEM_SIZE) % MEM_SIZE, lo |-> x % MEM_SIZE]

(* The 32-bit product of two 16-bit values. *)
Mul32(a, b) ==
    LET x == a * (b \div 256)
        y == a * (b % 256)
        s == (x % 256) * 256 + y
    IN [hi |-> (x \div 256) + (s \div MEM_SIZE), lo |-> s % MEM_SIZE]

(* a << s in 32 bits, for a 16-bit a and 0 <= s < 32. *)
Shl32(a, s) ==
    IF s < 16 THEN Halves(a * Pow2(s))
    ELSE [hi |-> (a * Pow2(s - 16)) % MEM_SIZE, lo |-> 0]

(* The int v >> s (arithmetic), for 0 <= s < 32. *)
ShrInt(v, s) == IF s = 31 THEN (IF v < 0 THEN -1 ELSE 0) ELSE v \div Pow2(s)

(* A 16-bit a shifted left by 16, read as an int. *)
Shl16Int(a) == IF a < SIGN_BIT THEN a * MEM_SIZE ELSE (a - MEM_SIZE) * MEM_SIZE

(* The low 16 bits, what a store into a uint16_t keeps. *)
U16(x) == x % MEM_SIZE

(* ------------------------------------------------------------------ *)
(* Memory: the array memory[MEM_SIZE] as the function of its non-zero  *)
(* cells; every other cell holds 0.                                    *)

MemRead(mem, a) == IF a \in DOMAIN mem THEN mem[a] ELSE 0

MemWrite(mem, a, v) ==
    IF v = 0
    THEN [x \in (DOMAIN mem) \ {a} |-> mem[x]]
    ELSE [x \in (DOMAIN mem) \cup {a} |-> IF x = a THEN v ELSE mem[x]]

EmptyMem == [x \in {} |-> 0]

(* ------------------------------------------------------------------ *)
(* Locations: what a uint16_t * of the interpreter points at.          *)

NULL == [k |-> "null", i |-> 0]
LocReg(r) == [k |-> "reg", i |-> r]
LocMem(a) == [k |-> "mem", i |-> a]
LocSP == [k |-> "sp", i |-> 0]
LocPC == [k |-> "pc", i |-> 0]
LocO == [k |-> "o", i |-> 0]
LocLit(v) == [k |-> "lit", i |-> v]
LocDummy == [k |-> "dummy", i |-> 0]

(* A pointer &cpu->memory[i] with i past the end of the array. *)
OutOfBounds(loc) == loc.k = "mem" /\ loc.i >= MEM_SIZE

(* ------------------------------------------------------------------ *)
(* Bounds of the model.                                                *)

(* Operand registers used by the enumerated instructions: the first  *)
(* NumOperandRegs of A, B, C, X, Y, Z, I, J.                            *)
NumOperandRegs == 1

(* Small literals used by the enumerated instructions: 0 .. MaxSmallLit *)
(* (and 31).                                                            *)
MaxSmallLit == 1

(* The largest cycle count a caller passes to DCPU_StepCycles. *)
MaxStepCycles == 4

(* Stepping calls a caller makes between two DCPU_Init. *)
MaxCalls == 2

(* Cycles after which DCPU_StepUntilStuck starts no further instruction. *)
MaxTicks == 8

(* ------------------------------------------------------------------ *)
(* Undefined behaviour.  A load through a pointer past memory[] yields  *)
(* some value (rda for *val_a, rdb for *val_b); a store through it hits *)
(* one of the fields that follow memory[] in struct DCPU_State, or      *)
(* nothing the emulator reads, or faults.  An int computation that      *)
(* overflows (uint16_t operands are promoted to int) or shifts by 32 or *)
(* more yields the two's complement result (wrap) or some value (rda).  *)

UBValues == {0, 1}

UBHits == {"none", "inst", "dummy", "skip", "timer", "fault"}

UBChoices == [rda : UBValues, rdb : UBValues, hit : UBHits, wrap : BOOLEAN]

(* The outcomes that differ when only an int computation is undefined. *)
ArithChoices ==
    {u \in UBChoices : u.rdb = 0 /\ u.hit = "none" /\ (u.wrap => u.rda = 0)}

NoUB == [rda |-> 0, rdb |-> 0, hit |-> "none", wrap |-> TRUE]

(* C's / on ints: truncation toward zero (b > 0). *)
CDiv(a, b) == IF a >= 0 \/ a % b = 0 THEN a \div b ELSE (a \div b) + 1

(* The working copy of the machine during one cycle: struct DCPU_State  *)
(* and whether the cycle executed undefined behaviour / faulted.        *)
Touch(m, locs) ==
    [m EXCEPT !.oob = @ \/ (\E l \in locs : OutOfBounds(l) \/ l = NULL)]

(* *loc as an rvalue. *)
Get(m, loc, rd) ==
    CASE loc.k = "reg" -> m.registers[loc.i]
      [] loc.k = "mem" -> IF loc.i < MEM_SIZE THEN MemRead(m.memory, loc.i) ELSE rd
      [] loc.k = "sp" -> m.sp
      [] loc.k = "pc" -> m.pc
      [] loc.k = "o" -> m.o
      [] loc.k = "lit" -> loc.i
      [] loc.k = "dummy" -> m.dummy
      [] OTHER -> rd

(* *loc = v.  No store goes through a pointer into literals[]: only     *)
(* val_a is stored through, and a basic instruction resolves a with     *)
(* dest = 1.                                                            *)
Put(m, loc, v, hit) ==
    CASE loc.k = "reg" -> [m EXCEPT !.registers[loc.i] = v]
      [] loc.k = "mem" /\ loc.i < MEM_SIZE ->
            [m EXCEPT !.memory = MemWrite(@, loc.i, v)]
      [] loc.k = "mem" /\ loc.i >= MEM_SIZE ->
            CASE hit = "inst" -> [m EXCEPT !.inst = v]
              [] hit = "dummy" -> [m EXCEPT !.dummy = v]
              [] hit = "skip" -> [m EXCEPT !.skip = v % 256]
              [] hit = "timer" -> [m EXCEPT !.timer.lo = v]
              [] hit = "fault" -> [m EXCEPT !.fault = TRUE]
              [] OTHER -> m
      [] loc.k = "sp" -> [m EXCEPT !.sp = v]
      [] loc.k = "pc" -> [m EXCEPT !.pc = v]
      [] loc.k = "o" -> [m EXCEPT !.o = v]
      [] loc.k = "dummy" -> [m EXCEPT !.dummy = v]
      [] OTHER -> m

(* ------------------------------------------------------------------ *)
(* Instruction words.                                                  *)

Opcode(inst) == inst % 16
FieldA(inst) == (inst \div 16) % 64
FieldB(inst) == (inst \div 1024) % 64
MkInst(op, a, b) == b * 1024 + a * 16 + op

DCPU_ValueLength(value) ==
    IF value < VAL_SUCC THEN 0
    ELSE IF value <= VAL_SUCC_LIT THEN 1
    ELSE 0

DCPU_InstructionLength(inst) ==
    IF Opcode(inst) # 0
    THEN 1 + DCPU_ValueLength(FieldA(inst)) + DCPU_ValueLength(FieldB(inst))
    ELSE 1

(* eval_value with PUSH as &cpu->memory[cpu->sp--]: the location is     *)
(* taken before SP is decremented.                                      *)
eval_value_push_post_decrement(m, value, dest, old) ==
    CASE value >= VAL_REG_A /\ value <= VAL_REG_J ->
            [m |-> m, loc |-> LocReg(value), cycles |-> 0]
      [] value >= VAL_DEREF_REG_A /\ value <= VAL_DEREF_REG_J ->
            [m |-> m,
             loc |-> LocMem(MemRead(m.memory, m.registers[value - VAL_DEREF_REG_A])),
             cycles |-> 0]
      [] value >= VAL_SUCC_REG_A /\ value <= VAL_SUCC_REG_J ->
            [m |-> [m EXCEPT !.pc = U16(@ + 1)],
             loc |-> LocMem(MemRead(m.memory, m.pc) + m.registers[value - VAL_SUCC_REG_A]),
             cycles |-> 1]
      [] value = VAL_POP ->
            [m |-> [m EXCEPT !.sp = U16(@ + 1)], loc |-> LocMem(m.sp), cycles |-> 0]
      [] value = VAL_PEEK ->
            [m |-> m, loc |-> LocMem(m.sp), cycles |-> 0]
      [] value = VAL_PUSH ->
            [m |-> [m EXCEPT !.sp = U16(@ - 1)], loc |-> LocMem(m.sp), cycles |-> 0]
      [] value = VAL_SP -> [m |-> m, loc |-> LocSP, cycles |-> 0]
      [] value = VAL_PC -> [m |-> m, loc |-> LocPC, cycles |-> 0]
      [] value = VAL_O -> [m |-> m, loc |-> LocO, cycles |-> 0]
      [] value = VAL_SUCC ->
            [m |-> [m EXCEPT !.pc = U16(@ + 1)],
             loc |-> LocMem(MemRead(m.memory, m.pc)), cycles |-> 1]
      [] value = VAL_SUCC_LIT ->
            [m |-> [m EXCEPT !.pc = U16(@ + 1)], loc |-> LocMem(m.pc), cycles |-> 1]
      [] value >= VAL_LIT_FIRST /\ value <= VAL_LIT_LAST ->
            [m |-> m,
             loc |-> IF dest = 1 THEN LocDummy ELSE LocLit(value - VAL_LIT_FIRST),
             cycles |-> 0]
      [] OTHER -> [m |-> m, loc |-> old, cycles |-> 0]

(* eval_value: the location of operand code value, the cycles spent    *)
(* (0 or 1), and the machine with PC / SP advanced.  old is the slot's  *)
(* content, which an unhandled code leaves in place.                    *)
eval_value(m, value, dest, old) ==
    CASE value >= VAL_REG_A /\ value <= VAL_REG_J ->
            [m |-> m, loc |-> LocReg(value), cycles |-> 0]
      [] value >= VAL_DEREF_REG_A /\ value <= VAL_DEREF_REG_J ->
            [m |-> m,
             loc |-> LocMem(MemRead(m.memory, m.registers[value - VAL_DEREF_REG_A])),
             cycles |-> 0]
      [] value >= VAL_SUCC_REG_A /\ value <= VAL_SUCC_REG_J ->
            [m |-> [m EXCEPT !.pc = U16(@ + 1)],
             loc |-> LocMem(MemRead(m.memory, m.pc) + m.registers[value - VAL_SUCC_REG_A]),
             cycles |-> 1]
      [] value = VAL_POP ->
            [m |-> [m EXCEPT !.sp = U16(@ + 1)], loc |-> LocMem(m.sp), cycles |-> 0]
      [] value = VAL_PEEK ->
            [m |-> m, loc |-> LocMem(m.sp), cycles |-> 0]
      [] value = VAL_PUSH ->
            [m |-> [m EXCEPT !.sp = U16(@ - 1)], loc |-> LocMem(U16(m.sp - 1)),
             cycles |-> 0]
      [] value = VAL_SP -> [m |-> m, loc |-> LocSP, cycles |-> 0]
      [] value = VAL_PC -> [m |-> m, loc |-> LocPC, cycles |-> 0]
      [] value = VAL_O -> [m |-> m, loc |-> LocO, cycles |-> 0]
      [] value = VAL_SUCC ->
            [m |-> [m EXCEPT !.pc = U16(@ + 1)],
             loc |-> LocMem(MemRead(m.memory, m.pc)), cycles |-> 1]
      [] value = VAL_SUCC_LIT ->
            [m |-> [m EXCEPT !.pc = U16(@ + 1)], loc |-> LocMem(m.pc), cycles |-> 1]
      [] value >= VAL_LIT_FIRST /\ value <= VAL_LIT_LAST ->
            [m |-> m,
             loc |-> IF dest = 1 THEN LocDummy ELSE LocLit(value - VAL_LIT_FIRST),
             cycles |-> 0]
      [] OTHER -> [m |-> m, loc |-> old, cycles |-> 0]

(* ------------------------------------------------------------------ *)
(* The cycle functions.  Each takes the machine and the outcome u of    *)
(* any undefined behaviour it executes, and gives the machine with      *)
(* cycle set to the Thunk it returns.                                   *)

(* printf("... ending cycle %u\n", cpu->timer++), a uint32_t. *)
Tick(m) ==
    [m EXCEPT !.timer =
        IF @.lo < MEM_SIZE - 1 THEN [@ EXCEPT !.lo = @ + 1]
        ELSE [hi |-> (@.hi + 1) % MEM_SIZE, lo |-> 0]]

get_cycle_refetch(m) ==
    [Tick([m EXCEPT !.inst = 0, !.val_a = NULL, !.val_b = NULL])
        EXCEPT !.cycle = "cycle_fetch"]

(* cycle_add with the O of cycle_sub: 0xffff on carry. *)
cycle_add_o_ffff(m0, u) ==
    LET m == Touch(m0, {m0.val_a, m0.val_b})
        tmp == Halves(Get(m, m.val_a, u.rda) + Get(m, m.val_b, u.rdb))
        m1 == Put(m, m.val_a, tmp.lo, u.hit)
        m2 == [m1 EXCEPT !.o = IF tmp.hi # 0 THEN 65535 ELSE 0]
    IN get_cycle_refetch(Tick(m2))

cycle_add(m0, u) ==
    LET m == Touch(m0, {m0.val_a, m0.val_b})
        tmp == Halves(Get(m, m.val_a, u.rda) + Get(m, m.val_b, u.rdb))
        m1 == Put(m, m.val_a, tmp.lo, u.hit)
        m2 == [m1 EXCEPT !.o = IF tmp.hi # 0 THEN 1 ELSE 0]
    IN get_cycle_refetch(Tick(m2))

(* cycle_sub without the store of line 280. *)
cycle_sub_no_store(m0, u) ==
    LET m == Touch(m0, {m0.val_a, m0.val_b})
        tmp == Halves(Get(m, m.val_a, u.rda) - Get(m, m.val_b, u.rdb))
        m2 == [m EXCEPT !.o = IF tmp.hi # 0 THEN 65535 ELSE 0]
    IN get_cycle_refetch(Tick(m2))

(* The int difference converted to uint32_t: a negative one has all    *)
(* the high bits set.                                                   *)
cycle_sub(m0, u) ==
    LET m == Touch(m0, {m0.val_a, m0.val_b})
        tmp == Halves(Get(m, m.val_a, u.rda) - Get(m, m.val_b, u.rdb))
        m1 == Put(m, m.val_a, tmp.lo, u.hit)
        m2 == [m1 EXCEPT !.o = IF tmp.hi # 0 THEN 65535 ELSE 0]
    IN get_cycle_refetch(Tick(m2))

(* The product is an int product: past INT_MAX it is undefined. *)
cycle_mul(m0, u) ==
    LET m == Touch(m0, {m0.val_a, m0.val_b})
        prod == Mul32(Get(m, m.val_a, u.rda), Get(m, m.val_b, u.rdb))
        over == prod.hi >= SIGN_BIT
        tmp == IF over /\ ~u.wrap THEN Halves(u.rda) ELSE prod
        m1 == Put([m EXCEPT !.ub = @ \/ over], m.val_a, tmp.lo, u.hit)
        m2 == [m1 EXCEPT !.o = tmp.hi]
    IN get_cycle_refetch(m2)

cycle_divmod2(m, u) == get_cycle_refetch(Tick(m))

(* The int shift of *val_a by 16 is undefined from *val_a = 0x8000 on,  *)
(* where the two's complement result is negative.                       *)
cycle_div1(m0, u) ==
    LET m == Touch(m0, {m0.val_a, m0.val_b})
        a == Get(m, m.val_a, u.rda)
        b == Get(m, m.val_b, u.rdb)
        over == a >= SIGN_BIT
        tmp == IF over /\ ~u.wrap THEN Halves(u.rda)
               ELSE Halves(CDiv(Shl16Int(a), b))
        m1 == IF b # 0
              THEN [Put([m EXCEPT !.ub = @ \/ over], m.val_a, a \div b, u.hit)
                       EXCEPT !.o = tmp.hi]
              ELSE Put([m EXCEPT !.o = 0], m.val_a, 0, u.hit)
    IN [Tick(m1) EXCEPT !.cycle = "cycle_divmod2"]

cycle_mod1(m0, u) ==
    LET m == Touch(m0, {m0.val_a, m0.val_b})
        a == Get(m, m.val_a, u.rda)
        b == Get(m, m.val_b, u.rdb)
        m1 == IF b # 0 THEN Put(m, m.val_a, a % b, u.hit)
                       ELSE Put(m, m.val_a, 0, u.hit)
    IN [Tick(m1) EXCEPT !.cycle = "cycle_divmod2"]

(* The shifts are int shifts: undefined for a count of 32 or more and,  *)
(* to the left, for a result past INT_MAX.  The machine's shift uses    *)
(* the low 5 bits of the count.                                         *)
cycle_shl(m0, u) ==
    LET m == Touch(m0, {m0.val_a, m0.val_b})
        a == Get(m, m.val_a, u.rda)
        b == Get(m, m.val_b, u.rdb)
        wrapped == Shl32(a, b % 32)
        over == b >= 32 \/ wrapped.hi >= SIGN_BIT \/ (b >= 16 /\ a * Pow2((b % 32) - 16) >= SIGN_BIT)
        res == IF over /\ ~u.wrap THEN Halves(u.rda) ELSE wrapped
        m1 == Put([m EXCEPT !.ub = @ \/ over], m.val_a, res.lo, u.hit)
        m2 == [m1 EXCEPT !.o = res.hi]
    IN get_cycle_refetch(m2)

cycle_shr(m0, u) ==
    LET m == Touch(m0, {m0.val_a, m0.val_b})
        a == Get(m, m.val_a, u.rda)
        b == Get(m, m.val_b, u.rdb)
        over == b >= 32 \/ a >= SIGN_BIT
        res == IF b >= 32 /\ ~u.wrap THEN u.rda ELSE ShrInt(a, b % 32)
        ovf == IF over /\ ~u.wrap THEN u.rda
               ELSE U16(ShrInt(Shl16Int(a), b % 32))
        m1 == [m EXCEPT !.ub = @ \/ over, !.o = ovf]
        m2 == Put(m1, m.val_a, res % MEM_SIZE, u.hit)
    IN get_cycle_refetch(m2)

cycle_if(m, u) == get_cycle_refetch(Tick(m))

cycle_skip(m, u) ==
    LET inst == MemRead(m.memory, m.pc)
    IN get_cycle_refetch([m EXCEPT !.pc = U16(@ + DCPU_InstructionLength(inst)),
                                   !.skip = 0])

cycle_jsr(m0, u) ==
    LET m == Touch(m0, {m0.val_a})
        m1 == [m EXCEPT !.sp = U16(@ - 1)]
        m2 == [m1 EXCEPT !.memory = MemWrite(@, m1.sp, m1.pc)]
        m3 == [m2 EXCEPT !.pc = Get(m2, m2.val_a, u.rda)]
    IN get_cycle_refetch(Tick(m3))

(* cycle_fetch, lines 451-529: the operands are resolved; the opcode    *)
(* either completes in this cycle or names the Thunk for the next one.  *)
FetchExecute(x0, u) ==
    LET op == Opcode(x0.inst)
        done(y) == Tick([y EXCEPT !.inst = 0, !.val_a = NULL, !.val_b = NULL])
        x == IF op = OP_NOBASIC \/ (op >= OP_ADD /\ op <= OP_SHR)
             THEN x0 ELSE Touch(x0, {x0.val_a, x0.val_b})
        a == Get(x, x.val_a, u.rda)
        b == Get(x, x.val_b, u.rdb)
    IN CASE op = OP_NOBASIC ->
                IF FieldA(x.inst) = XOP_JSR
                THEN [x EXCEPT !.cycle = "cycle_jsr"]
                ELSE done(x)
         [] op = OP_SET -> done(Put(x, x.val_a, b, u.hit))
         [] op = OP_ADD -> [x EXCEPT !.cycle = "cycle_add"]
         [] op = OP_SUB -> [x EXCEPT !.cycle = "cycle_sub"]
         [] op = OP_MUL -> [x EXCEPT !.cycle = "cycle_mul"]
         [] op = OP_DIV -> [x EXCEPT !.cycle = "cycle_div1"]
         [] op = OP_MOD -> [x EXCEPT !.cycle = "cycle_mod1"]
         [] op = OP_SHL -> [x EXCEPT !.cycle = "cycle_shl"]
         [] op = OP_SHR -> [x EXCEPT !.cycle = "cycle_shr"]
         [] op = OP_AND -> done(Put(x, x.val_a, BitAnd(a, b), u.hit))
         [] op = OP_BOR -> done(Put(x, x.val_a, BitOr(a, b), u.hit))
         [] op = OP_XOR -> done(Put(x, x.val_a, BitXor(a, b), u.hit))
         [] op = OP_IFE ->
                [x EXCEPT !.skip = IF a = b THEN 0 ELSE 1, !.cycle = "cycle_if"]
         [] op = OP_IFN ->
                [x EXCEPT !.skip = IF a # b THEN 0 ELSE 1, !.cycle = "cycle_if"]
         [] op = OP_IFG ->
                [x EXCEPT !.skip = IF a > b THEN 0 ELSE 1, !.cycle = "cycle_if"]
         [] op = OP_IFB ->
                [x EXCEPT !.skip = IF BitAnd(a, b) # 0 THEN 0 ELSE 1,
                          !.cycle = "cycle_if"]
         [] OTHER -> done(x)

(* cycle_fetch, lines 417-449: resolve the operands not yet resolved;   *)
(* one that costs a cycle ends the cycle with the same Thunk.           *)
FetchOperands(f, u) ==
    IF Opcode(f.inst) = OP_NOBASIC
    THEN IF f.val_a = NULL
         THEN LET ra == eval_value(f, FieldB(f.inst), 0, f.val_a)
                  fa == [ra.m EXCEPT !.val_a = ra.loc]
              IN IF ra.cycles # 0 THEN Tick(fa) ELSE FetchExecute(fa, u)
         ELSE FetchExecute(f, u)
    ELSE LET ra == IF f.val_a = NULL
                   THEN eval_value(f, FieldA(f.inst), 1, f.val_a)
                   ELSE [m |-> f, loc |-> f.val_a, cycles |-> 0]
             fa == [ra.m EXCEPT !.val_a = ra.loc]
             rb == IF fa.val_b = NULL
                   THEN eval_value(fa, FieldB(fa.inst), 0, fa.val_b)
                   ELSE [m |-> fa, loc |-> fa.val_b, cycles |-> 0]
             fb == [rb.m EXCEPT !.val_b = rb.loc]
         IN IF ra.cycles # 0 THEN Tick(fa)
            ELSE IF rb.cycles # 0 THEN Tick(fb)
            ELSE FetchExecute(fb, u)

(* cycle_fetch without the increment of line 409: PC stays on the       *)
(* instruction word.                                                    *)
cycle_fetch_keeps_pc(m, u) ==
    IF m.inst = 0
    THEN IF m.skip # 0
         THEN [Tick(m) EXCEPT !.cycle = "cycle_skip"]
         ELSE FetchOperands([m EXCEPT !.inst = MemRead(m.memory, m.pc)], u)
    ELSE FetchOperands(m, u)

(* cycle_fetch, lines 399-415: with no instruction in flight, a pending *)
(* skip ends the cycle with the skip Thunk; otherwise the word at PC is *)
(* fetched.                                                             *)
cycle_fetch(m, u) ==
    IF m.inst = 0
    THEN IF m.skip # 0
         THEN [Tick(m) EXCEPT !.cycle = "cycle_skip"]
         ELSE FetchOperands([m EXCEPT !.inst = MemRead(m.memory, m.pc),
                                      !.pc = U16(@ + 1)], u)
    ELSE FetchOperands(m, u)

(* cpu->cycle.execute(cpu), and the assignment of its result to cpu->cycle. *)
Execute(m, u) ==
    CASE m.cycle = "cycle_fetch" -> cycle_fetch(m, u)
      [] m.cycle = "cycle_add" -> cycle_add(m, u)
      [] m.cycle = "cycle_sub" -> cycle_sub(m, u)
      [] m.cycle = "cycle_mul" -> cycle_mul(m, u)
      [] m.cycle = "cycle_div1" -> cycle_div1(m, u)
      [] m.cycle = "cycle_mod1" -> cycle_mod1(m, u)
      [] m.cycle = "cycle_divmod2" -> cycle_divmod2(m, u)
      [] m.cycle = "cycle_shl" -> cycle_shl(m, u)
      [] m.cycle = "cycle_shr" -> cycle_shr(m, u)
      [] m.cycle = "cycle_if" -> cycle_if(m, u)
      [] m.cycle = "cycle_skip" -> cycle_skip(m, u)
      [] m.cycle = "cycle_jsr" -> cycle_jsr(m, u)

(* ------------------------------------------------------------------ *)
(* State.                                                              *)

VARIABLES
    cpu,        \* struct DCPU_State
    ub,         \* some cycle so far executed undefined behaviour
    fault,      \* an out-of-bounds store faulted: the process is gone
    hpc,        \* the stepping entry point the caller is inside, or "idle"
    num_cycles, \* the local num_cycles of that entry point
    old_pc,     \* the local old_pc of DCPU_StepUntilStuck
    entry,      \* cpu as it was when the last entry point was called
    arg,        \* the num_cycles argument of the last DCPU_StepCycles call
    last,       \* the entry point that returned last, or "none"
    ret,        \* the value it returned (0 for void)
    loaded,     \* DCPU_Load was called since the last DCPU_Init
    calls,      \* stepping calls since the last DCPU_Init
    ticks       \* calls of cpu->cycle.execute since the last DCPU_Init

vars == <<cpu, ub, fault, hpc, num_cycles, old_pc, entry, arg, last, ret, loaded,
          calls, ticks>>

(* DCPU_Init without line 564: the memset alone, SP left at 0. *)
InitCpuMemsetOnly ==
    [registers |-> [r \in 0..(DCPU_REG_COUNT - 1) |-> 0],
     sp |-> 0, pc |-> 0, o |-> 0,
     memory |-> EmptyMem,
     cycle |-> "cycle_fetch",
     inst |-> 0, val_a |-> NULL, val_b |-> NULL,
     dummy |-> 0, timer |-> [hi |-> 0, lo |-> 0], skip |-> 0]

(* The state DCPU_Init leaves: memset to 0, sp = 0xffff, cycle_fetch. *)
InitCpu ==
    [registers |-> [r \in 0..(DCPU_REG_COUNT - 1) |-> 0],
     sp |-> 65535, pc |-> 0, o |-> 0,
     memory |-> EmptyMem,
     cycle |-> "cycle_fetch",
     inst |-> 0, val_a |-> NULL, val_b |-> NULL,
     dummy |-> 0, timer |-> [hi |-> 0, lo |-> 0], skip |-> 0]

Work(c) == c @@ [ub |-> FALSE, oob |-> FALSE, fault |-> FALSE]

Strip(m) == [f \in DOMAIN InitCpu |-> m[f]]

(* memcpy(cpu->memory + address, data, length * sizeof *data) *)
LoadWords(mem, address, data) ==
    LET cells == {address + i - 1 : i \in 1..Len(data)}
    IN [x \in {y \in (DOMAIN mem) \cup cells :
                  IF y \in cells THEN data[y - address + 1] # 0 ELSE TRUE}
          |-> IF x \in cells THEN data[x - address + 1] ELSE mem[x]]

(* ------------------------------------------------------------------ *)
(* The programs and machine states the model starts from.  Every idle   *)
(* state is one the emulator can be brought to: DCPU_Load sets any      *)
(* memory, SET r / SP / O / PC with a next-word literal sets any        *)
(* register, and SET of a small literal destination sets dummy.         *)

OperandRegs == 0..(NumOperandRegs - 1)

SmallLiterals == (VAL_LIT_FIRST..(VAL_LIT_FIRST + MaxSmallLit)) \cup {VAL_LIT_LAST}

OperandCodes ==
    OperandRegs
    \cup {VAL_DEREF_REG_A + r : r \in OperandRegs}
    \cup {VAL_SUCC_REG_A + r : r \in OperandRegs}
    \cup (VAL_POP..VAL_SUCC_LIT)
    \cup SmallLiterals

ExtendedOps == {0, XOP_JSR, 2, 63}

BasicInstructions ==
    {MkInst(op, a, b) : op \in OP_SET..OP_IFB, a \in OperandCodes, b \in OperandCodes}

ExtendedInstructions ==
    {MkInst(OP_NOBASIC, x, a) : x \in ExtendedOps, a \in OperandCodes}

Instructions == BasicInstructions \cup ExtendedInstructions

(* A few operand pairs per opcode, for the runs that vary the caller. *)
SampleOperands ==
    {<<VAL_REG_A, VAL_LIT_FIRST + 1>>,
     <<VAL_SUCC_REG_A, VAL_SUCC_LIT>>,
     <<VAL_PUSH, VAL_POP>>,
     <<VAL_DEREF_REG_A, VAL_SUCC>>}

SampleInstructions ==
    {MkInst(op, p[1], p[2]) : op \in OP_SET..OP_IFB, p \in SampleOperands}
    \cup {MkInst(OP_NOBASIC, x, a) :
             x \in {0, XOP_JSR}, a \in {VAL_REG_A, VAL_SUCC_LIT, VAL_POP}}
    \cup {DCPU_STOP}

(* IFE A, A passes and IFN A, A fails, whatever A holds. *)
Conditionals == {MkInst(OP_IFE, VAL_REG_A, VAL_REG_A), MkInst(OP_IFN, VAL_REG_A, VAL_REG_A)}

(* Two machine states around the program: low addresses, and the top   *)
(* of the address space where PC, SP and indexed addresses wrap: there  *)
(* [next_word + A] is 6 + 0xFFFF, the fifth word past memory[].         *)
DataLow ==
    [pc |-> 16,
     registers |-> [r \in 0..(DCPU_REG_COUNT - 1) |-> 32 + r],
     sp |-> 65535, o |-> 0, dummy |-> 0,
     next |-> <<48, 49>>,
     cells |-> [x \in (32..39) \cup (64..71) \cup (80..87) \cup {65534, 65535} |->
                   CASE x \in 32..39 -> x + 32
                     [] x \in 64..71 -> x + 192
                     [] x \in 80..87 -> x - 77
                     [] OTHER -> x - 65000]]

DataHigh ==
    [pc |-> 65535,
     registers |-> [r \in 0..(DCPU_REG_COUNT - 1) |-> 65535 - r],
     sp |-> 0, o |-> 65535, dummy |-> 4660,
     next |-> <<6, 32768>>,
     cells |-> [x \in (65528..65534) |-> x - 65520]]

DataStates == {DataLow, DataHigh}

(* The memory of a scenario: the words of prog from pc on (wrapping),   *)
(* over the data cells.                                                 *)
Image(d, prog) ==
    LET at == [i \in 1..Len(prog) |-> U16(d.pc + i - 1)]
        code == {at[i] : i \in 1..Len(prog)}
        word(x) == prog[CHOOSE i \in 1..Len(prog) : at[i] = x]
        value(x) == IF x \in code THEN word(x) ELSE d.cells[x]
    IN [x \in {y \in code \cup DOMAIN d.cells : value(y) # 0} |-> value(x)]

ScenarioCpu(d, prog) ==
    [InitCpu EXCEPT !.registers = d.registers, !.sp = d.sp, !.pc = d.pc,
                    !.o = d.o, !.dummy = d.dummy, !.memory = Image(d, prog)]

(* One instruction followed by its two possible next words; or a       *)
(* conditional followed by one instruction and its next words.          *)
ScenariosOf(ws) ==
    {ScenarioCpu(d, <<w>> \o d.next) : d \in DataStates, w \in ws}
    \cup {ScenarioCpu(d, <<c, w>> \o d.next) :
             d \in DataStates, c \in Conditionals, w \in ws}

Scenarios == ScenariosOf(SampleInstructions)

SweepScenarios == ScenariosOf(Instructions)

(* What a caller loads after DCPU_Init: the test programs of           *)
(* src/test/test.c, [SET r, v; STOP] at address 0.                      *)
LoadPrograms ==
    {<<MkInst(OP_SET, r, v), DCPU_STOP>> : r \in OperandRegs, v \in SmallLiterals}

InitFrom(S) ==
    /\ cpu \in S
    /\ ub = FALSE
    /\ fault = FALSE
    /\ hpc = "idle"
    /\ num_cycles = 0
    /\ old_pc = 0
    /\ entry = cpu
    /\ arg = 0
    /\ last = "none"
    /\ ret = 0
    /\ loaded = TRUE
    /\ calls = 0
    /\ ticks = 0

Init == InitFrom(Scenarios)

InitSweep == InitFrom(SweepScenarios)

(* ------------------------------------------------------------------ *)
(* Actions.                                                            *)

(* The outcomes of the next cycle's undefined behaviour, if it has any. *)
UBOutcomes ==
    LET probe == Execute(Work(cpu), NoUB)
    IN IF probe.oob THEN UBChoices
       ELSE IF probe.ub THEN ArithChoices
       ELSE {NoUB}

(* cpu->cycle = cpu->cycle.execute(cpu) *)
RunCycle(u) ==
    LET m == Execute(Work(cpu), u)
    IN /\ cpu' = IF m.fault THEN cpu ELSE Strip(m)
       /\ ub' = (ub \/ m.ub \/ m.oob)
       /\ fault' = m.fault
       /\ ticks' = ticks + 1

Idle == hpc = "idle" /\ ~fault

(* A new instruction is fetched only while the tick budget lasts. *)
MayFetch ==
    ticks < MaxTicks \/ cpu.inst # 0 \/ cpu.skip # 0 \/ cpu.cycle # "cycle_fetch"

DCPU_Init ==
    /\ Idle
    /\ cpu' = InitCpu
    /\ entry' = cpu
    /\ last' = "DCPU_Init"
    /\ ret' = 0
    /\ loaded' = FALSE
    /\ calls' = 0
    /\ ticks' = 0
    /\ UNCHANGED <<ub, fault, hpc, num_cycles, old_pc, arg>>

DCPU_Load(address, data) ==
    /\ Idle
    /\ ~loaded
    /\ cpu' = [cpu EXCEPT !.memory = LoadWords(@, address, data)]
    /\ entry' = cpu
    /\ last' = "DCPU_Load"
    /\ ret' = 0
    /\ loaded' = TRUE
    /\ UNCHANGED <<ub, fault, hpc, num_cycles, old_pc, arg, calls, ticks>>

(* DCPU_StepCycles: for(; num_cycles != 0; --num_cycles) ... *)
CallStepCycles(n) ==
    /\ Idle
    /\ calls < MaxCalls
    /\ calls' = calls + 1
    /\ entry' = cpu
    /\ arg' = n
    /\ num_cycles' = n
    /\ hpc' = IF n = 0 THEN "idle" ELSE "StepCycles"
    /\ last' = IF n = 0 THEN "StepCycles" ELSE last
    /\ ret' = IF n = 0 THEN 0 ELSE ret
    /\ UNCHANGED <<cpu, ub, fault, old_pc, loaded, ticks>>

StepCyclesLoop ==
    /\ hpc = "StepCycles"
    /\ ~fault
    /\ \E u \in UBOutcomes : RunCycle(u)
    /\ num_cycles' = num_cycles - 1
    /\ hpc' = IF num_cycles' = 0 THEN "idle" ELSE "StepCycles"
    /\ last' = IF num_cycles' = 0 THEN "StepCycles" ELSE last
    /\ ret' = IF num_cycles' = 0 THEN 0 ELSE ret
    /\ UNCHANGED <<old_pc, entry, arg, loaded, calls>>

(* DCPU_StepInstruction: do { ...; ++num_cycles; }                      *)
(*                       while(cpu->inst != 0 || cpu->skip != 0);       *)
CallStepInstruction ==
    /\ Idle
    /\ calls < MaxCalls
    /\ calls' = calls + 1
    /\ entry' = cpu
    /\ num_cycles' = 0
    /\ hpc' = "StepInstruction"
    /\ UNCHANGED <<cpu, ub, fault, old_pc, arg, last, ret, loaded, ticks>>

StepInstructionLoop ==
    /\ hpc = "StepInstruction"
    /\ ~fault
    /\ \E u \in UBOutcomes : RunCycle(u)
    /\ num_cycles' = num_cycles + 1
    /\ LET again == (cpu'.inst # 0 \/ cpu'.skip # 0) \/ fault'
       IN /\ hpc' = IF again THEN "StepInstruction" ELSE "idle"
          /\ last' = IF again THEN last ELSE "StepInstruction"
          /\ ret' = IF again THEN ret ELSE num_cycles'
    /\ UNCHANGED <<old_pc, entry, arg, loaded, calls>>

(* DCPU_StepUntilStuck: do { old_pc = cpu->pc;                          *)
(*                           num_cycles += DCPU_StepInstruction(cpu);   *)
(*                           stuck = cpu->pc == old_pc; } while(!stuck) *)
CallStepUntilStuck ==
    /\ Idle
    /\ calls < MaxCalls
    /\ calls' = calls + 1
    /\ entry' = cpu
    /\ num_cycles' = 0
    /\ old_pc' = cpu.pc
    /\ hpc' = "StepUntilStuck"
    /\ UNCHANGED <<cpu, ub, fault, arg, last, ret, loaded, ticks>>

StepUntilStuckLoop ==
    /\ hpc = "StepUntilStuck"
    /\ ~fault
    /\ MayFetch
    /\ \E u \in UBOutcomes : RunCycle(u)
    /\ num_cycles' = num_cycles + 1
    /\ LET again == (cpu'.inst # 0 \/ cpu'.skip # 0) \/ fault'
           stuck == cpu'.pc = old_pc
       IN /\ hpc' = IF again \/ ~stuck THEN "StepUntilStuck" ELSE "idle"
          /\ old_pc' = IF again THEN old_pc ELSE cpu'.pc
          /\ last' = IF again \/ ~stuck THEN last ELSE "StepUntilStuck"
          /\ ret' = IF again \/ ~stuck THEN ret ELSE num_cycles'
    /\ UNCHANGED <<entry, arg, loaded, calls>>

Next ==
    \/ DCPU_Init
    \/ \E data \in LoadPrograms : DCPU_Load(0, data)
    \/ \E n \in 0..MaxStepCycles : CallStepCycles(n)
    \/ StepCyclesLoop
    \/ CallStepInstruction
    \/ StepInstructionLoop
    \/ CallStepUntilStuck
    \/ StepUntilStuckLoop

Spec == Init /\ [][Next]_vars

(* Every enumerated instruction, stepped one instruction at a time. *)
NextSweep ==
    \/ CallStepInstruction
    \/ StepInstructionLoop

SpecSweep == InitSweep /\ [][NextSweep]_vars

(* ------------------------------------------------------------------ *)
(* What the specification says of an instruction word, for the claims.  *)

(* An operand code that consumes a next word: 0x10-0x17, 0x1E, 0x1F. *)
NextWordMode(code) ==
    (code >= 16 /\ code <= 23) \/ code = 30 \/ code = 31

NextWords(code) == IF NextWordMode(code) THEN 1 ELSE 0

IsBasic(w) == Opcode(w) # 0

IsJSR(w) == Opcode(w) = 0 /\ FieldA(w) = 1

IsConditional(w) == Opcode(w) >= 12

(* The number of operands of w in a next-word mode. *)
NextWordCount(w) ==
    IF IsBasic(w) THEN NextWords(FieldA(w)) + NextWords(FieldB(w))
    ELSE NextWords(FieldB(w))

(* Base cycles: 1 for SET, AND, BOR, XOR; 3 for DIV, MOD; 2 otherwise. *)
BaseCycles(w) ==
    CASE Opcode(w) \in {1, 9, 10, 11} -> 1
      [] Opcode(w) \in {5, 6} -> 3
      [] OTHER -> 2

(* The machine is idle: nothing in flight, no skip pending, fetch next. *)
IdleCpu(c) ==
    /\ c.inst = 0
    /\ c.skip = 0
    /\ c.cycle = "cycle_fetch"
    /\ c.val_a = NULL
    /\ c.val_b = NULL

(* Entry point f has just returned to the caller. *)
AtReturn(f) == hpc = "idle" /\ last = f /\ ~fault

(* The word at PC when the last entry point was called. *)
EntryWord == MemRead(entry.memory, entry.pc)

(* DCPU_StepInstruction has returned from a call made on an idle machine. *)
SteppedFromIdle == AtReturn("StepInstruction") /\ IdleCpu(entry)

(* t + n on the 32-bit cycle counter. *)
TimerPlus(t, n) ==
    [hi |-> (t.hi + ((t.lo + n) \div MEM_SIZE)) % MEM_SIZE, lo |-> (t.lo + n) % MEM_SIZE]

(* ------------------------------------------------------------------ *)
(* Claims.                                                             *)

(* C1: DCPU_StepCycles(N), called at any cycle boundary, increases the  *)
(* cycle counter by exactly N.  (Stated for the runs free of undefined  *)
(* behaviour, where it already fails.)                                  *)
C1_StepCyclesAdvancesTimerByN ==
    (AtReturn("StepCycles") /\ ~ub) => cpu.timer = TimerPlus(entry.timer, arg)

(* C2: DCPU_StepInstruction, called on an idle machine whose next       *)
(* instruction is a non-conditional basic instruction or JSR, returns   *)
(* the base cycles of the opcode plus 1 per next-word operand, for      *)
(* every opcode and every combination of operand codes.                 *)
C2_ReturnsBasePlusOperandCycles ==
    (/\ SteppedFromIdle
     /\ (IsBasic(EntryWord) /\ ~IsConditional(EntryWord)) \/ IsJSR(EntryWord))
    => ret = BaseCycles(EntryWord) + NextWordCount(EntryWord)

(* On the runs free of undefined behaviour the count is the specified   *)
(* one: what breaks it is the out-of-bounds operand location of C10.    *)
C2_CountOnDefinedRuns ==
    (/\ SteppedFromIdle
     /\ ~ub
     /\ (IsBasic(EntryWord) /\ ~IsConditional(EntryWord)) \/ IsJSR(EntryWord))
    => ret = BaseCycles(EntryWord) + NextWordCount(EntryWord)

(* The operand modes that are a register, SP, O or a small literal, and *)
(* the value the specification gives such an operand in machine state   *)
(* c.                                                                   *)
PlainMode(code) == code <= 7 \/ code = 27 \/ code = 29 \/ code >= 32

PlainValue(c, code) ==
    CASE code <= 7 -> c.registers[code]
      [] code = 27 -> c.sp
      [] code = 29 -> c.o
      [] OTHER -> code - 32

(* Whether the test of conditional w passes on values a and b. *)
TestPasses(w, a, b) ==
    CASE Opcode(w) = 12 -> a = b
      [] Opcode(w) = 13 -> a # b
      [] Opcode(w) = 14 -> a > b
      [] OTHER -> BitAnd(a, b) # 0

(* C3: an IFx with no next-word operand takes 2 cycles when its test    *)
(* passes and 3 when it fails, the skip costing one cycle whatever the  *)
(* length of the skipped instruction, and leaves the machine idle with  *)
(* skip-pending clear.  (Stated for register, SP and O operands, where  *)
(* the test reads what the specification says.)                         *)
C3_ConditionalTakesTwoOrThreeCycles ==
    (/\ SteppedFromIdle
     /\ ~ub
     /\ IsConditional(EntryWord)
     /\ FieldA(EntryWord) \in (0..7) \cup {27, 29}
     /\ FieldB(EntryWord) \in (0..7) \cup {27, 29})
    => /\ ret = IF TestPasses(EntryWord, PlainValue(entry, FieldA(EntryWord)),
                                         PlainValue(entry, FieldB(EntryWord)))
                THEN 2 ELSE 3
       /\ IdleCpu(cpu)

(* The conditional at PC on entry is IFN A, A, which always fails, and  *)
(* the instruction after it, the one skipped, is basic or JSR.          *)
SkippedWord == MemRead(entry.memory, U16(entry.pc + 1))

SkippedOne ==
    /\ SteppedFromIdle
    /\ ~ub
    /\ EntryWord = MkInst(13, 0, 0)
    /\ IsBasic(SkippedWord) \/ IsJSR(SkippedWord)

(* C4: a failed IFx advances PC past the whole following instruction,   *)
(* located at p: to p + 1 + its number of next-word operands.           *)
C4_SkipPassesWholeInstruction ==
    SkippedOne => cpu.pc = U16(entry.pc + 1 + 1 + NextWordCount(SkippedWord))

(* The cycles of an instruction at which its operands are resolved and  *)
(* its operation is still to run.                                       *)
OperandsResolved ==
    /\ hpc = "StepInstruction"
    /\ IdleCpu(entry)
    /\ ~ub
    /\ cpu.cycle \in {"cycle_add", "cycle_sub", "cycle_mul", "cycle_div1", "cycle_mod1",
                      "cycle_shl", "cycle_shr", "cycle_if", "cycle_jsr"}

(* C5: for an instruction word with a defined opcode,                   *)
(* DCPU_InstructionLength is 1 plus the number of its next-word         *)
(* operands, the number of words PC advances when the word is fetched   *)
(* and its operands are resolved, and lies in 1..3.                     *)
C5_LengthIsWordsConsumed ==
    OperandsResolved
    => /\ DCPU_InstructionLength(cpu.inst) = 1 + NextWordCount(cpu.inst)
       /\ cpu.pc = U16(entry.pc + DCPU_InstructionLength(cpu.inst))
       /\ DCPU_InstructionLength(cpu.inst) \in 1..3

(* C6: a basic instruction whose destination a is a small literal or a  *)
(* next-word literal stores nothing: all memory and the registers A..J  *)
(* are as before it.                                                    *)
C6_LiteralDestinationStoresNothing ==
    (/\ SteppedFromIdle
     /\ ~ub
     /\ IsBasic(EntryWord)
     /\ FieldA(EntryWord) >= 31)
    => /\ cpu.memory = entry.memory
       /\ cpu.registers = entry.registers

(* C7: with a small literal v as destination a, the operation reads v   *)
(* for *a: IFx compares v with *b, and SUB leaves O = 0xFFFF exactly    *)
(* when v < *b.  (Stated for b a register, SP, O or a small literal.)   *)
C7_LiteralDestinationReadsLiteral ==
    (/\ SteppedFromIdle
     /\ ~ub
     /\ FieldA(EntryWord) >= 32
     /\ PlainMode(FieldB(EntryWord)))
    => LET v == FieldA(EntryWord) - 32
           b == PlainValue(entry, FieldB(EntryWord))
       IN /\ IsConditional(EntryWord)
                => (TestPasses(EntryWord, v, b) <=> cpu.pc = U16(entry.pc + 1))
          /\ Opcode(EntryWord) = 3
                => cpu.o = IF v < b THEN 65535 ELSE 0

(* C8: an operand [reg] (code 0x08 + r) is the memory cell at address   *)
(* registers[r]: it resolves to that cell, and SET [r], v with a small  *)
(* literal v changes that cell to v and no other.                       *)
C8_RegisterIndirectIsOneIndirection ==
    /\ (OperandsResolved /\ IsBasic(cpu.inst) /\ FieldA(cpu.inst) \in 8..15)
          => cpu.val_a = LocMem(entry.registers[FieldA(cpu.inst) - 8])
    /\ (OperandsResolved /\ FieldB(cpu.inst) \in 8..15)
          => (IF IsBasic(cpu.inst) THEN cpu.val_b ELSE cpu.val_a)
                = LocMem(entry.registers[FieldB(cpu.inst) - 8])
    /\ (/\ SteppedFromIdle
        /\ ~ub
        /\ Opcode(EntryWord) = 1
        /\ FieldA(EntryWord) \in 8..15
        /\ FieldB(EntryWord) >= 32)
          => cpu.memory = MemWrite(entry.memory,
                                   entry.registers[FieldA(EntryWord) - 8],
                                   FieldB(EntryWord) - 32)

(* C9: an extended instruction whose extended opcode is not JSR is a    *)
(* fatal decode fault: the machine does not complete the word as an     *)
(* instruction, ready to fetch the word that follows it.                *)
C9_UnknownExtendedOpcodeDoesNotComplete ==
    (/\ SteppedFromIdle
     /\ ~ub
     /\ ~IsBasic(EntryWord)
     /\ ~IsJSR(EntryWord))
    => ~(/\ IdleCpu(cpu)
         /\ cpu.pc = U16(entry.pc + 1 + NextWordCount(EntryWord)))

(* C10: every address operand resolution computes wraps modulo 0x10000: *)
(* a resolved memory location is one of the 65536 cells, and for        *)
(* [next_word + reg] it is the cell (next_word + registers[r]) mod      *)
(* 0x10000.                                                             *)
C10_ResolvedAddressesWrap ==
    /\ \A loc \in {cpu.val_a, cpu.val_b} : loc.k = "mem" => loc.i \in 0..(MEM_SIZE - 1)
    /\ (/\ hpc = "StepInstruction"
        /\ IdleCpu(entry)
        /\ cpu.inst # 0
        /\ IsBasic(cpu.inst)
        /\ FieldA(cpu.inst) \in 16..23
        /\ cpu.val_a # NULL)
          => cpu.val_a = LocMem(U16(MemRead(entry.memory, U16(entry.pc + 1))
                                    + entry.registers[FieldA(cpu.inst) - 16]))

(* C11: DCPU_Init, called in any reachable state, leaves the registers  *)
(* A..J, PC and O at 0, SP at 0xFFFF, all memory 0, the cycle counter   *)
(* 0, skip clear, no instruction in flight, both operand slots NULL and *)
(* the fetch as next cycle.  (The cells outside DOMAIN cpu.memory are   *)
(* the cells that hold 0.)                                              *)
C11_InitResetsEverything ==
    (hpc = "idle" /\ last = "DCPU_Init")
    => /\ \A r \in 0..(DCPU_REG_COUNT - 1) : cpu.registers[r] = 0
       /\ cpu.pc = 0
       /\ cpu.o = 0
       /\ cpu.sp = 65535
       /\ \A x \in DOMAIN cpu.memory : cpu.memory[x] = 0
       /\ cpu.timer = [hi |-> 0, lo |-> 0]
       /\ cpu.skip = 0
       /\ cpu.inst = 0
       /\ cpu.val_a = NULL
       /\ cpu.val_b = NULL
       /\ cpu.cycle = "cycle_fetch"

(* DCPU_Init was called mid-instruction, after a failed IFx raised      *)
(* skip, with operands resolved and memory loaded.                      *)
C11_InitCalledMidInstruction ==
    /\ hpc = "idle"
    /\ last = "DCPU_Init"
    /\ entry.inst # 0
    /\ entry.skip # 0
    /\ entry.val_a # NULL
    /\ entry.memory # EmptyMem
    /\ entry.sp # 65535

(* DCPU_Init was called with the skip cycle pending. *)
C11_InitCalledBeforeSkipCycle ==
    /\ hpc = "idle"
    /\ last = "DCPU_Init"
    /\ entry.cycle = "cycle_skip"

(* ------------------------------------------------------------------ *)
(* The test program of src/test/test.c: each test is DCPU_Init,         *)
(* DCPU_Load at address 0 and DCPU_StepUntilStuck (test_begin).         *)

AllRegs == 0..(DCPU_REG_COUNT - 1)

AllLiterals == 0..(VAL_LIT_LAST - VAL_LIT_FIRST)

(* test_single_set_register_literal: [SET reg, value; STOP]. *)
set_reg_literal(reg, value) == <<MkInst(OP_SET, reg, VAL_LIT_FIRST + value), DCPU_STOP>>

(* test_add: SET A, 0x4700; SET B, 0x11; ADD A, B; STOP. *)
test_add == <<31745, 18176, 50193, 1026, DCPU_STOP>>

(* test_sub: SET A, 0x4700; SET B, 0x11; SUB A, B; STOP. *)
test_sub == <<31745, 18176, 50193, 1027, DCPU_STOP>>

TestPrograms ==
    {set_reg_literal(reg, value) : reg \in AllRegs, value \in AllLiterals}
    \cup {test_add, test_sub}

(* The machine test_begin leaves for DCPU_StepUntilStuck. *)
Loaded(code) == [InitCpu EXCEPT !.memory = LoadWords(EmptyMem, 0, code)]

InitTest == InitFrom({InitCpu})

NextTest ==
    \/ DCPU_Init
    \/ \E code \in TestPrograms : DCPU_Load(0, code)
    \/ CallStepUntilStuck
    \/ StepUntilStuckLoop

SpecTest == InitTest /\ [][NextTest]_vars

(* C12: for every register r and literal v in 0..31, after DCPU_Init    *)
(* and DCPU_Load of [SET r, v; STOP] at 0, DCPU_StepUntilStuck returns  *)
(* (at its third cycle: it never runs with three cycles counted), with  *)
(* register r = v, every other register 0 and PC = 1.                   *)
C12_SetRegisterLiteralTest ==
    \A r \in AllRegs, v \in AllLiterals :
        entry = Loaded(set_reg_literal(r, v))
        => /\ hpc = "StepUntilStuck" => num_cycles < 3
           /\ (hpc = "idle" /\ last = "StepUntilStuck")
                 => /\ cpu.registers = [x \in AllRegs |-> IF x = r THEN v ELSE 0]
                    /\ cpu.pc = 1

(* The test of SET J, 31 has returned. *)
C12_SetJReturned ==
    /\ hpc = "idle"
    /\ last = "StepUntilStuck"
    /\ entry = Loaded(set_reg_literal(7, 31))
    /\ cpu.registers[7] = 31

(* ------------------------------------------------------------------ *)
(* ADD A, B and SUB A, B over the corners of the 16-bit values, and the *)
(* values of test_add and test_sub.                                     *)

ArithValues == {0, 1, 17, 18176, SIGN_BIT - 1, SIGN_BIT, MEM_SIZE - 2, MEM_SIZE - 1}

ArithInstructions == {MkInst(OP_ADD, VAL_REG_A, VAL_REG_A + 1), MkInst(OP_SUB, VAL_REG_A, VAL_REG_A + 1)}

ArithScenarios ==
    {[InitCpu EXCEPT !.registers[0] = x, !.registers[1] = y, !.o = o,
                     !.memory = LoadWords(EmptyMem, 0, <<w>>)] :
        x \in ArithValues, y \in ArithValues, o \in {0, MEM_SIZE - 1}, w \in ArithInstructions}

InitArith == InitFrom(ArithScenarios)

SpecArith == InitArith /\ [][NextSweep]_vars

(* C13: with x in A and y in B, ADD A, B leaves A = (x + y) mod 0x10000 *)
(* and O = 1 if x + y > 0xFFFF else 0; SUB A, B leaves                  *)
(* A = (x - y) mod 0x10000 and O = 0xFFFF if x < y else 0; B is         *)
(* unchanged.                                                           *)
C13_AddSubValues ==
    LET x == entry.registers[0]
        y == entry.registers[1]
    IN /\ (SteppedFromIdle /\ EntryWord = MkInst(OP_ADD, VAL_REG_A, VAL_REG_A + 1))
            => /\ cpu.registers[0] = (x + y) % 65536
               /\ cpu.o = IF x + y > 65535 THEN 1 ELSE 0
               /\ cpu.registers[1] = y
       /\ (SteppedFromIdle /\ EntryWord = MkInst(OP_SUB, VAL_REG_A, VAL_REG_A + 1))
            => /\ cpu.registers[0] = (x - y) % 65536
               /\ cpu.o = IF x < y THEN 65535 ELSE 0
               /\ cpu.registers[1] = y

(* 0 - 1 has been computed: A = 0xFFFF and O = 0xFFFF. *)
C13_ZeroMinusOne ==
    /\ SteppedFromIdle
    /\ EntryWord = MkInst(OP_SUB, VAL_REG_A, VAL_REG_A + 1)
    /\ entry.registers[0] = 0
    /\ entry.registers[1] = 1
    /\ cpu.registers[0] = 65535
    /\ cpu.o = 65535

(* 0xFFFF + 1 has been computed: A = 0 and O = 1. *)
C13_MaxPlusOne ==
    /\ SteppedFromIdle
    /\ EntryWord = MkInst(OP_ADD, VAL_REG_A, VAL_REG_A + 1)
    /\ entry.registers[0] = 65535
    /\ entry.registers[1] = 1
    /\ cpu.registers[0] = 0
    /\ cpu.o = 1

(* test_add and test_sub have returned with 0x4711 and 0x46EF in A. *)
C13_TestAddSubPass ==
    /\ (AtReturn("StepUntilStuck") /\ entry = Loaded(test_add)) => cpu.registers[0] = 18193
    /\ (AtReturn("StepUntilStuck") /\ entry = Loaded(test_sub)) => cpu.registers[0] = 18159

(* ------------------------------------------------------------------ *)
(* The location the specification gives a writable destination operand  *)
(* code (0x00-0x1E) of the instruction at PC in machine state c, whose  *)
(* next word, if it has one, follows the instruction word.              *)
SpecLocation(c, code) ==
    LET next_word == MemRead(c.memory, U16(c.pc + 1))
    IN CASE code <= 7 -> LocReg(code)
         [] code \in 8..15 -> LocMem(c.registers[code - 8])
         [] code \in 16..23 -> LocMem(U16(next_word + c.registers[code - 16]))
         [] code = 24 -> LocMem(c.sp)
         [] code = 25 -> LocMem(c.sp)
         [] code = 26 -> LocMem(U16(c.sp - 1))
         [] code = 27 -> LocSP
         [] code = 28 -> LocPC
         [] code = 29 -> LocO
         [] OTHER -> LocMem(next_word)

(* DCPU_StepInstruction has returned from DIV a, 0 or MOD a, 0 (b the   *)
(* small literal 0) with a writable destination a.                      *)
DividedByZero ==
    /\ SteppedFromIdle
    /\ Opcode(EntryWord) \in {5, 6}
    /\ FieldA(EntryWord) <= 30
    /\ FieldB(EntryWord) = 32

(* C14: for every writable destination a, DIV a, b with *b = 0          *)
(* completes in its normal number of cycles with *a = 0 and O = 0, and  *)
(* MOD a, b with *a = 0 and O unchanged (O itself being the             *)
(* destination apart); the machine is idle again.                       *)
C14_DivModByZero ==
    DividedByZero
    => /\ Get(cpu, SpecLocation(entry, FieldA(EntryWord)), 0) = 0
       /\ Opcode(EntryWord) = 5 => cpu.o = 0
       /\ (Opcode(EntryWord) = 6 /\ FieldA(EntryWord) # 29) => cpu.o = entry.o
       /\ ret = 3 + NextWordCount(EntryWord)
       /\ IdleCpu(cpu)

(* The same holds of the code for the destinations it resolves as the   *)
(* specification does (all but [reg] and [next_word + reg], C8 and      *)
(* C10).                                                                *)
C14_DirectDestinations ==
    (DividedByZero /\ FieldA(EntryWord) \notin 8..23)
    => /\ Get(cpu, SpecLocation(entry, FieldA(EntryWord)), 0) = 0
       /\ Opcode(EntryWord) = 5 => cpu.o = 0
       /\ (Opcode(EntryWord) = 6 /\ FieldA(EntryWord) # 29) => cpu.o = entry.o
       /\ ret = 3 + NextWordCount(EntryWord)
       /\ IdleCpu(cpu)

(* ------------------------------------------------------------------ *)
(* DCPU_StepUntilStuck was called on an idle machine with STOP at PC.   *)
CalledAtStop == IdleCpu(entry) /\ EntryWord = DCPU_STOP

(* C15: on an idle machine with STOP (SUB PC, 1) at PC = p,             *)
(* DCPU_StepUntilStuck returns after exactly one instruction (its two   *)
(* cycles) with PC = p again, and no general register, no memory cell   *)
(* and not SP has changed.                                              *)
C15_StopIsOneWordLoop ==
    CalledAtStop
    => /\ hpc = "StepUntilStuck" => num_cycles < 2
       /\ AtReturn("StepUntilStuck")
             => /\ ret = 2
                /\ cpu.pc = entry.pc
                /\ cpu.registers = entry.registers
                /\ cpu.memory = entry.memory
                /\ cpu.sp = entry.sp

(* DCPU_StepUntilStuck has returned from STOP at the last address,      *)
(* where PC wraps to 0 and back.                                        *)
C15_StoppedAtLastAddress ==
    /\ CalledAtStop
    /\ AtReturn("StepUntilStuck")
    /\ entry.pc = 65535
    /\ cpu.pc = 65535

(* ------------------------------------------------------------------ *)
(* The machine after one DCPU_StepInstruction from machine m, as a      *)
(* function: the do-while loop of lines 696-699, followed for at most n *)
(* further cycles, on the runs without undefined behaviour.             *)
RECURSIVE StepInstructionFrom(_, _)
StepInstructionFrom(m, n) ==
    LET m1 == Execute(m, NoUB)
    IN IF (m1.inst # 0 \/ m1.skip # 0) /\ n > 0
       THEN StepInstructionFrom(m1, n - 1)
       ELSE m1

(* C16: whenever DCPU_StepUntilStuck returns, the instruction at PC is  *)
(* a 1-instruction infinite loop: a further DCPU_StepInstruction leaves *)
(* PC at the same value.  Stated here for the calls made                *)
(* mid-instruction, with an instruction in flight.                      *)
C16_StuckMeansStuck ==
    LET after == StepInstructionFrom(Work(cpu), 8)
    IN (AtReturn("StepUntilStuck") /\ entry.inst # 0 /\ ~ub /\ ~after.ub /\ ~after.oob)
       => after.pc = cpu.pc

(* The same for the calls made on an idle machine. *)
C16_StuckMeansStuckFromIdle ==
    LET after == StepInstructionFrom(Work(cpu), 8)
    IN (AtReturn("StepUntilStuck") /\ IdleCpu(entry) /\ ~ub /\ ~after.ub /\ ~after.oob)
       => after.pc = cpu.pc

(* ------------------------------------------------------------------ *)
(* The value the specification gives operand code of the instruction at *)
(* PC in machine state c, when the operand is resolved: PC has passed   *)
(* the instruction word then.                                           *)
SpecValue(c, code) ==
    CASE code = 28 -> U16(c.pc + 1)
      [] code = 31 -> MemRead(c.memory, U16(c.pc + 1))
      [] code >= 32 -> code - 32
      [] OTHER -> Get(c, SpecLocation(c, code), 0)

(* SP after the resolution of operand code, from SP = sp. *)
SpecSPAfter(sp, code) ==
    CASE code = 24 -> U16(sp + 1)
      [] code = 26 -> U16(sp - 1)
      [] OTHER -> sp

(* DCPU_StepInstruction has returned from JSR a, a an operand the code  *)
(* resolves as the specification does (not [reg], [next_word + reg]).   *)
JumpedToSubroutine ==
    /\ SteppedFromIdle
    /\ ~ub
    /\ IsJSR(EntryWord)
    /\ FieldB(EntryWord) \notin 8..23

(* C17: JSR a at address p, with v the value of a when it is resolved,  *)
(* ends with SP one below where the operand resolution left it,         *)
(* memory[SP] = p + 1 + next words of the JSR, and PC = v.              *)
C17_JsrPushesReturnAndJumps ==
    JumpedToSubroutine
    => LET a == FieldB(EntryWord)
       IN /\ cpu.sp = U16(SpecSPAfter(entry.sp, a) - 1)
          /\ MemRead(cpu.memory, cpu.sp) = U16(entry.pc + 1 + NextWordCount(EntryWord))
          /\ cpu.pc = SpecValue(entry, a)

(* The same for the operands other than POP and SP, which the push     *)
(* does not change.                                                     *)
C17_JsrOperandKept ==
    (JumpedToSubroutine /\ FieldB(EntryWord) \notin {24, 27})
    => LET a == FieldB(EntryWord)
       IN /\ cpu.sp = U16(SpecSPAfter(entry.sp, a) - 1)
          /\ MemRead(cpu.memory, cpu.sp) = U16(entry.pc + 1 + NextWordCount(EntryWord))
          /\ cpu.pc = SpecValue(entry, a)

(* ------------------------------------------------------------------ *)
(* The first cycle of IFE a, a or IFN a, a, fetched on an idle machine, *)
(* has set skip; a is an operand whose resolution has no side effect.   *)
ComparedWithItself ==
    /\ hpc = "StepInstruction"
    /\ IdleCpu(entry)
    /\ ~ub
    /\ cpu.inst = EntryWord
    /\ cpu.cycle = "cycle_if"
    /\ Opcode(cpu.inst) \in {12, 13}
    /\ FieldA(cpu.inst) = FieldB(cpu.inst)
    /\ FieldA(cpu.inst) \in (0..15) \cup {25, 27, 28, 29} \cup (32..63)

(* C18: IFE a, a never raises skip and IFN a, a always raises it, for   *)
(* every operand a whose resolution has no side effect.                 *)
C18_CompareWithItself ==
    ComparedWithItself
    => /\ Opcode(cpu.inst) = 12 => cpu.skip = 0
       /\ Opcode(cpu.inst) = 13 => cpu.skip # 0

(* The same for the operands that are not small literals. *)
C18_CompareLocationWithItself ==
    (ComparedWithItself /\ FieldA(cpu.inst) < 32)
    => /\ Opcode(cpu.inst) = 12 => cpu.skip = 0
       /\ Opcode(cpu.inst) = 13 => cpu.skip # 0

(* ------------------------------------------------------------------ *)
(* The instruction DCPU_StepInstruction is to complete: the one in      *)
(* flight at the call, or on an idle machine the one at PC; none when   *)
(* only a skip is pending.                                              *)
InstructionToComplete ==
    IF entry.inst # 0 THEN {entry.inst}
    ELSE IF IdleCpu(entry) THEN {EntryWord}
    ELSE {}

(* C19: DCPU_StepInstruction never starts a second instruction: the     *)
(* instruction in flight during the call is the one in flight at the    *)
(* call, or the one at PC of an idle machine; and when it returns the   *)
(* machine is idle (no instruction in flight, both operand slots NULL,  *)
(* skip clear, the fetch as next cycle).                                *)
C19_StepInstructionCompletesOne ==
    /\ (hpc = "StepInstruction" /\ ~fault /\ cpu.inst # 0) => cpu.inst \in InstructionToComplete
    /\ AtReturn("StepInstruction") => IdleCpu(cpu)

(* The same on the runs where no operand location is outside memory[]  *)
(* (C10) and no int computation is undefined.                           *)
C19_CompletesOneOnDefinedRuns ==
    ~ub => C19_StepInstructionCompletesOne

(* ------------------------------------------------------------------ *)
(* The execute phases, and those that dereference val_a / val_b.        *)
ExecutePhases ==
    {"cycle_add", "cycle_sub", "cycle_mul", "cycle_div1", "cycle_mod1", "cycle_divmod2",
     "cycle_shl", "cycle_shr", "cycle_if", "cycle_jsr"}

PhasesReadingA == ExecutePhases \ {"cycle_divmod2", "cycle_if"}

PhasesReadingB == PhasesReadingA \ {"cycle_jsr"}

(* C20: at every cycle boundary, if the instruction slot holds 0 then   *)
(* both operand slots are NULL and the next cycle is the fetch or the   *)
(* skip cycle; and whenever the next cycle is an execute phase the      *)
(* instruction slot is non-zero and every operand slot the phase        *)
(* dereferences is resolved.                                            *)
C20_ContinuationInvariant ==
    ~fault
    => /\ cpu.inst = 0
            => /\ cpu.val_a = NULL
               /\ cpu.val_b = NULL
               /\ cpu.cycle \in {"cycle_fetch", "cycle_skip"}
       /\ cpu.cycle \in ExecutePhases
            => /\ cpu.inst # 0
               /\ cpu.cycle \in PhasesReadingA => cpu.val_a # NULL
               /\ cpu.cycle \in PhasesReadingB => cpu.val_b # NULL

(* The same on the runs where no operand location is outside memory[]  *)
(* (C10) and no int computation is undefined.                           *)
C20_InvariantOnDefinedRuns ==
    ~ub => C20_ContinuationInvariant

(* ------------------------------------------------------------------ *)
(* The machine is suspended at a cycle boundary inside the instruction  *)
(* fetched from an idle machine, with a resolved (val_b still NULL) or  *)
(* both operands resolved, and the operation not yet executed: the next *)
(* cycle is the fetch again or the first execute phase.                 *)
SuspendedAfterResolving ==
    /\ hpc = "StepInstruction"
    /\ ~fault
    /\ IdleCpu(entry)
    /\ cpu.inst # 0
    /\ cpu.val_a # NULL
    /\ cpu.cycle # "cycle_divmod2"

(* The operand codes resolved so far, in the order of resolution: the   *)
(* operand of an extended instruction, or a and then b.                 *)
ResolvedCodes ==
    IF ~IsBasic(cpu.inst) THEN <<FieldB(cpu.inst)>>
    ELSE IF cpu.val_b = NULL THEN <<FieldA(cpu.inst)>>
    ELSE <<FieldA(cpu.inst), FieldB(cpu.inst)>>

(* C21: at each cycle boundary at which the machine is suspended after  *)
(* resolving an operand, the registers A..J, O and every memory cell    *)
(* are as before the instruction was fetched; PC has advanced by the    *)
(* fetch and by 1 per next-word operand resolved, and SP by +1 per POP  *)
(* and -1 per PUSH resolved.                                            *)
C21_ResolutionChangesNoData ==
    SuspendedAfterResolving
    => LET codes == ResolvedCodes
           words == IF Len(codes) = 1 THEN NextWords(codes[1])
                    ELSE NextWords(codes[1]) + NextWords(codes[2])
           sp == IF Len(codes) = 1 THEN SpecSPAfter(entry.sp, codes[1])
                 ELSE SpecSPAfter(SpecSPAfter(entry.sp, codes[1]), codes[2])
       IN /\ cpu.inst = EntryWord
          /\ cpu.registers = entry.registers
          /\ cpu.o = entry.o
          /\ cpu.memory = entry.memory
          /\ cpu.pc = U16(entry.pc + 1 + words)
          /\ cpu.sp = sp

(* ADD PUSH, next_word_literal is suspended before cycle_add at the top *)
(* of the address space: SP has gone from 0 to 0xFFFF and PC from       *)
(* 0xFFFF to 1.                                                         *)
C21_SuspendedAfterPushAndNextWord ==
    /\ SuspendedAfterResolving
    /\ cpu.inst = MkInst(OP_ADD, VAL_PUSH, VAL_SUCC_LIT)
    /\ cpu.cycle = "cycle_add"
    /\ entry.sp = 0
    /\ cpu.sp = 65535
    /\ cpu.pc = 1

(* MOD [next_word + A], [next_word] is suspended between its two        *)
(* operand cycles, a resolved and b not.                                *)
C21_SuspendedBetweenOperands ==
    /\ SuspendedAfterResolving
    /\ cpu.inst = MkInst(OP_MOD, VAL_SUCC_REG_A, VAL_SUCC)
    /\ cpu.cycle = "cycle_fetch"
    /\ cpu.val_b = NULL

(* ------------------------------------------------------------------ *)
(* IFN A, A, fetched on an idle machine, has failed: the machine is     *)
(* between the end of the IFx (cycle_if has run) and the end of the     *)
(* skip, or DCPU_StepInstruction has returned after the skip.           *)
FailedConditional == IdleCpu(entry) /\ EntryWord = MkInst(OP_IFN, VAL_REG_A, VAL_REG_A)

SkipPending ==
    /\ FailedConditional
    /\ hpc = "StepInstruction"
    /\ ~fault
    /\ cpu.inst = 0
    /\ num_cycles >= 2

SkipDone == FailedConditional /\ AtReturn("StepInstruction")

(* Registers A..J, SP, O and memory are as they were at the call. *)
DataUnchanged ==
    /\ cpu.registers = entry.registers
    /\ cpu.sp = entry.sp
    /\ cpu.o = entry.o
    /\ cpu.memory = entry.memory

(* C22: for every instruction word following a failed IFx, from the end *)
(* of the IFx to the return to idle after the skip the registers A..J,  *)
(* SP, O and every memory cell are unchanged; after the skip            *)
(* skip-pending is clear and the machine is idle; and the skip has      *)
(* passed exactly one instruction, the skipped word with its next       *)
(* words (for the words with a defined opcode), also when that          *)
(* instruction is an IFx.                                               *)
C22_SkippedDoesNotExecute ==
    /\ SkipPending => (DataUnchanged /\ cpu.skip # 0)
    /\ SkipDone
          => /\ DataUnchanged
             /\ cpu.skip = 0
             /\ IdleCpu(cpu)
             /\ (IsBasic(SkippedWord) \/ IsJSR(SkippedWord))
                   => cpu.pc = U16(entry.pc + 2 + NextWordCount(SkippedWord))

(* The words whose length DCPU_InstructionLength gives as the           *)
(* specification does: no [next_word + reg] operand, and for JSR no     *)
(* next-word operand (C4, C5).                                          *)
LengthAsSpecified(w) ==
    IF IsBasic(w) THEN FieldA(w) \notin 16..23 /\ FieldB(w) \notin 16..23
    ELSE NextWordCount(w) = 0

(* The frame part holds for every skipped word, and the skip passes     *)
(* exactly one instruction for the words of LengthAsSpecified.          *)
C22_FrameAndOneInstruction ==
    /\ SkipPending => (DataUnchanged /\ cpu.skip # 0)
    /\ SkipDone
          => /\ DataUnchanged
             /\ cpu.skip = 0
             /\ IdleCpu(cpu)
             /\ ((IsBasic(SkippedWord) \/ IsJSR(SkippedWord)) /\ LengthAsSpecified(SkippedWord))
                   => cpu.pc = U16(entry.pc + 2 + NextWordCount(SkippedWord))

(* A skipped IFN A, A, which would raise skip if it ran, or a skipped   *)
(* SET PUSH, POP, has been passed.                                      *)
C22_SkippedAConditional ==
    /\ SkipDone
    /\ SkippedWord = MkInst(OP_IFN, VAL_REG_A, VAL_REG_A)

C22_SkippedPushPop ==
    /\ SkipDone
    /\ SkippedWord = MkInst(OP_SET, VAL_PUSH, VAL_POP)

(* ------------------------------------------------------------------ *)
(* Stack programs, loaded at address 0 and run as the tests of          *)
(* src/test/test.c are, by DCPU_StepUntilStuck: SET PUSH, r then        *)
(* SET q, POP, and the uses of PEEK as source and as destination.       *)

push_pop(r, q) ==
    <<MkInst(OP_SET, VAL_PUSH, VAL_REG_A + r), MkInst(OP_SET, VAL_REG_A + q, VAL_POP), DCPU_STOP>>

peek_source(q) == <<MkInst(OP_SET, VAL_REG_A + q, VAL_PEEK), DCPU_STOP>>

peek_destination(r) == <<MkInst(OP_SET, VAL_PEEK, VAL_REG_A + r), DCPU_STOP>>

StackPrograms ==
    {push_pop(r, q) : r \in AllRegs, q \in AllRegs}
    \cup {peek_source(q) : q \in AllRegs}
    \cup {peek_destination(r) : r \in AllRegs}

(* SP values: 0, where PUSH wraps to 0xFFFF; 1, where the pushed cell   *)
(* is the word of SET PUSH, r itself; 4, past the program; 0x8000; and  *)
(* 0xFFFF, where POP wraps to 0.  (With SP = 2 the push overwrites      *)
(* SET q, POP before it is fetched, and it is not what executes.)       *)
StackPointers == {0, 1, 4, SIGN_BIT, MEM_SIZE - 1}

(* Values of the pushed register, and of the other registers. *)
StackValues == {0, 1, 18193, MEM_SIZE - 1}

StackScenarios ==
    {[InitCpu EXCEPT !.sp = s,
                     !.registers = [i \in AllRegs |-> IF i = r THEN x ELSE 4660 + i],
                     !.memory = LoadWords(
                         [a \in {SIGN_BIT - 1, MEM_SIZE - 1} |-> 43981], 0, code)] :
        s \in StackPointers, r \in AllRegs, x \in StackValues, code \in StackPrograms}

InitStack == InitFrom(StackScenarios)

NextStack ==
    \/ CallStepUntilStuck
    \/ StepUntilStuckLoop

SpecStack == InitStack /\ [][NextStack]_vars

(* DCPU_StepUntilStuck, called on a stack scenario, has completed n     *)
(* one-cycle instructions.                                              *)
StackStepped(n) ==
    /\ entry \in StackScenarios
    /\ hpc = "StepUntilStuck"
    /\ num_cycles = n
    /\ IdleCpu(cpu)

(* C23: for SP = s and x in register r, after SET PUSH, r and then      *)
(* SET q, POP register q holds x, SP is s again, memory[(s - 1) mod     *)
(* 0x10000] holds x and no other memory cell has changed; and SET with  *)
(* PEEK as source or destination leaves SP unchanged.                   *)
C23_PushPopInverse ==
    /\ \A r \in AllRegs, q \in AllRegs :
          (/\ StackStepped(2)
           /\ \A i \in 1..2 : MemRead(entry.memory, i - 1) = push_pop(r, q)[i])
          => /\ cpu.registers[q] = entry.registers[r]
             /\ cpu.sp = entry.sp
             /\ cpu.memory = MemWrite(entry.memory, U16(entry.sp - 1), entry.registers[r])
    /\ (StackStepped(1) /\ (FieldA(EntryWord) = VAL_PEEK \/ FieldB(EntryWord) = VAL_PEEK))
          => cpu.sp = entry.sp

(* SET PUSH, J then SET A, POP has run from SP = 0 with 0x4711 in J:    *)
(* the value went through memory[0xFFFF], over the 0xABCD it held.      *)
C23_PushedAcrossTheWrap ==
    /\ StackStepped(2)
    /\ MemRead(entry.memory, 0) = MkInst(OP_SET, VAL_PUSH, VAL_REG_J)
    /\ MemRead(entry.memory, 1) = MkInst(OP_SET, VAL_REG_A, VAL_POP)
    /\ entry.sp = 0
    /\ entry.registers[7] = 18193
    /\ MemRead(entry.memory, 65535) = 43981
    /\ MemRead(cpu.memory, 65535) = 18193
    /\ cpu.registers[0] = 18193
    /\ cpu.sp = 0

(* SET PEEK, A has stored through [SP]. *)
C23_StoredThroughPeek ==
    /\ StackStepped(1)
    /\ EntryWord = MkInst(OP_SET, VAL_PEEK, VAL_REG_A)
    /\ entry.sp = 65535
    /\ MemRead(cpu.memory, 65535) = 18193

(* ------------------------------------------------------------------ *)
(* C24: DCPU_StepInstruction, called at any reachable cycle boundary,   *)
(* ends its loop after at most 6 cycles (it is never still running with *)
(* 6 cycles counted) and returns a count of at least 1 and at most 6.   *)
C24_StepInstructionTerminates ==
    /\ (hpc = "StepInstruction" /\ ~fault) => num_cycles < 6
    /\ AtReturn("StepInstruction") => (ret >= 1 /\ ret <= 6)

(* The same on the runs where no operand location is outside memory[]  *)
(* (C10) and no int computation is undefined.                           *)
C24_TerminatesOnDefinedRuns ==
    ~ub => C24_StepInstructionTerminates

(* The bound is reached: a failed IFx with two next-word operands has   *)
(* returned 6.                                                          *)
C24_SixCycles ==
    /\ SteppedFromIdle
    /\ ~ub
    /\ IsConditional(EntryWord)
    /\ NextWordCount(EntryWord) = 2
    /\ ret = 6

====
